---- MODULE Spec2Model ----
(***************************************************************************)
(* LINE stamp generator: the Streamlit script app.py (one run of the       *)
(* script per user interaction) and the module utils.py (init_gemini,      *)
(* generate_stamp, create_zip) with its process-wide handle _client.       *)
(*                                                                         *)
(* Python values: None is the string "None"; a PIL image is "PIL.Image";   *)
(* the genai client object is "Client"; a str is a sequence of characters  *)
(* where its content is computed on (text_input, the captions, the file    *)
(* names) and a TLA+ string naming the message where it is only passed     *)
(* on.  The pair returned by generate_stamp is the tuple <<image, error>>. *)
(***************************************************************************)
EXTENDS Integers, Sequences, FiniteSets, TLC

\* ------------------------------------------------------------------ bounds

\* Most caption lines the user types into the text area.
MaxLines == 10

\* ------------------------------------------------------- python primitives

None == "None"
Image == "PIL.Image"
Client == "Client"

NL == "\n"
Whitespace == {" ", "\t", NL}

Min(a, b) == IF a <= b THEN a ELSE b

Range(s) == {s[k] : k \in 1..Len(s)}

Count(s, x) == Cardinality({k \in 1..Len(s) : s[k] = x})

\* str.split('\n'): the segments between the separators, at least one.
RECURSIVE Split(_)
Split(s) ==
    IF \A k \in 1..Len(s) : s[k] # NL
    THEN <<s>>
    ELSE LET k == CHOOSE k \in 1..Len(s) :
                      s[k] = NL /\ \A j \in 1..(k - 1) : s[j] # NL
         IN <<SubSeq(s, 1, k - 1)>> \o Split(SubSeq(s, k + 1, Len(s)))

\* str.strip(): leading and trailing whitespace removed.
RECURSIVE LStrip(_)
LStrip(s) ==
    IF s # <<>> /\ Head(s) \in Whitespace THEN LStrip(Tail(s)) ELSE s

RECURSIVE RStrip(_)
RStrip(s) ==
    IF s # <<>> /\ s[Len(s)] \in Whitespace
    THEN RStrip(SubSeq(s, 1, Len(s) - 1))
    ELSE s

Strip(s) == RStrip(LStrip(s))

\* Truth value of a str: non-empty.
TruthyStr(s) == s # <<>>

\* Truth value of a tuple: non-empty, whatever its components are.
TruthyTuple(t) == Len(t) # 0

\* Truth value of None or of an object without __bool__/__len__ (a PIL
\* image, the genai client).
TruthyObj(v) == v # None

\* type(v).__name__ for the values a dict of results can hold.
PyType(v) == IF v = Image THEN "Image" ELSE "tuple"

\* ---------------------------------------------------------------- widgets

\* options=[8, 16, 24, 32, 40] of the select_slider.
StampOptions == {8, 16, 24, 32, 40}

\* The API key field: empty, or some key.
ApiKeys == {<<>>, <<"k">>}

\* st.file_uploader: None, or the uploaded file.
Uploads == {None, "UploadedFile"}

\* The caption typed on one line, and the same with blanks around it.
Caption == <<"a">>
PaddedCaption == <<" ", "a", " ">>

RECURSIVE Join(_)
Join(ls) ==
    IF ls = <<>> THEN <<>>
    ELSE IF Len(ls) = 1 THEN ls[1]
    ELSE ls[1] \o <<NL>> \o Join(Tail(ls))

\* Contents of the text area: n captions one per line, either typed cleanly
\* or with an empty first line, a whitespace-only line after the first
\* caption, blanks around every caption and a trailing newline.
TextInput(n, messy) ==
    IF ~messy
    THEN Join([j \in 1..n |-> Caption])
    ELSE Join(<<<<>>>>
              \o (IF n = 0 THEN <<>> ELSE <<PaddedCaption>>)
              \o <<<<" ", " ">>>>
              \o [j \in 1..(n - 1) |-> PaddedCaption]
              \o <<<<>>>>)

TextInputs == {TextInput(n, m) : n \in 0..MaxLines, m \in BOOLEAN}

\* ------------------------------------------------------------------ state

VARIABLES
    pc,                    \* where the process is (see the actions)
    client,                \* utils._client
    init_ret,              \* what init_gemini returned in this run, <<>> if not called
    api_key, uploaded_file, stamp_count, text_input, button,   \* the widgets
    base_image, lines,     \* app.py's base_image and lines
    i,                     \* the loop variable of the batch loop
    generated_images,      \* app.py's dict: file name -> type of the stored object
    status_text, progress, \* the status line and the progress bar
    sidebar,               \* the message shown in the sidebar
    errors,                \* st.error messages of the Generate handler
    warnings,              \* loop indices with a 'Failed to generate' warning
    shown,                 \* loop indices whose result st.image displayed
    download, zip_data,    \* the download button and the archive behind it
    calls,                 \* loop indices passed to generate_stamp in this run
    gs_base, gs_text,      \* generate_stamp's arguments base_image and text
    character_description, \* generate_stamp's local
    reference_images,      \* generate_stamp's local
    remote,                \* remote calls issued by the current generate_stamp call
    result                 \* what generate_stamp returns, <<>> before it returns

widgets == <<api_key, uploaded_file, stamp_count, text_input, button>>
output == <<status_text, progress, sidebar, errors, warnings, shown, download, zip_data>>
script == <<base_image, lines, i, generated_images, calls>>
stamp == <<gs_base, gs_text, character_description, reference_images, remote, result>>
vars == <<pc, client, init_ret, widgets, output, script, stamp>>

\* ------------------------------------------------------------ utils.py

\* What the constructor genai.Client(api_key=...) can do.
CtorOutcomes == {"ok", "raise"}

\* A faulty init_gemini: it drops the handle when the constructor raises.
InitGeminiDropsHandle(c, key, ctor) ==
    IF ~TruthyStr(key)
    THEN [client |-> c, ret |-> <<FALSE, "API Key is missing.">>]
    ELSE IF ctor = "ok"
    THEN [client |-> Client, ret |-> <<TRUE, "API Key configured successfully.">>]
    ELSE [client |-> None, ret |-> <<FALSE, "str(e)">>]

\* init_gemini(api_key) on handle c: the handle afterwards and the pair returned.
InitGemini(c, key, ctor) ==
    IF ~TruthyStr(key)
    THEN [client |-> c, ret |-> <<FALSE, "API Key is missing.">>]
    ELSE IF ctor = "ok"
    THEN [client |-> Client, ret |-> <<TRUE, "API Key configured successfully.">>]
    ELSE [client |-> c, ret |-> <<FALSE, "str(e)">>]

NotInitMsg == "API not initialized. Please configure API Key."
DefaultDescription == "A cute mascot character."

\* models.generate_content: a response with text, one with empty text, or an
\* exception.
DescribeOutcomes == {"text", "empty", "raise"}

\* A faulty describe step: the response's text is taken even when empty.
DescriptionAlwaysFromResponse(desc, out) ==
    IF out = "raise" THEN desc ELSE IF out = "text" THEN "response.text" ELSE ""

\* character_description after the describe step.
DescriptionAfter(desc, out) ==
    IF out = "text" THEN "response.text" ELSE desc

\* Saving the base image as PNG and wrapping it as a reference image: done,
\* or an exception (PIL cannot write every image mode as PNG).
PrepareOutcomes == {"ok", "raise"}

\* models.generate_images and what the response holds: an exception naming
\* 404/NOT_FOUND, any other exception, no generated image, an image object
\* without extractable bytes, bytes that PIL cannot open, an image whose
\* resize raises, an image.
GenerateOutcomes ==
    {"not_found", "error", "no_images", "no_bytes", "bad_bytes", "resize_error", "image"}

\* models.list after a 404.
ListOutcomes == {"ok", "raise"}

\* A faulty error branch: generate_images is issued again after an error.
AfterGenerateRetries(out) ==
    IF out = "not_found" THEN "list_models"
    ELSE IF out = "error" THEN "generate" ELSE "gs_ret"

\* Where generate_stamp goes after the generate_images call.
AfterGenerate(out) == IF out = "not_found" THEN "list_models" ELSE "gs_ret"

\* A faulty tail: no message when the response holds no image.
StampResultFallsThrough(out) ==
    IF out = "image" THEN <<Image, None>>
    ELSE IF out = "no_images" THEN <<None, None>>
    ELSE IF out = "no_bytes" THEN <<None, "Could not extract image bytes from ...">>
    ELSE IF out = "bad_bytes" THEN <<None, "Failed to process generated image: ...">>
    ELSE <<None, "str(e)">>

\* The pair generate_stamp returns for an outcome of generate_images other
\* than the 404 one.
StampResult(out) ==
    IF out = "image" THEN <<Image, None>>
    ELSE IF out = "no_images" THEN <<None, "No image returned from API.">>
    ELSE IF out = "no_bytes" THEN <<None, "Could not extract image bytes from ...">>
    ELSE IF out = "bad_bytes" THEN <<None, "Failed to process generated image: ...">>
    ELSE <<None, "str(e)">>

\* The pair generate_stamp returns after the 404 branch listed the models.
ListResult(out) ==
    IF out = "ok"
    THEN <<None, "Model 'imagen-4.0-generate-001' not found. Available models on your key: ...">>
    ELSE <<None, "Model not found and failed to list models: ...">>

Call(name, out, desc) == [call |-> name, outcome |-> out, description |-> desc]

\* generate_stamp, entry: the guard on the handle, then the choice of step 1.
GsStart ==
    /\ pc = "gs_start"
    /\ IF ~TruthyObj(client)
       THEN /\ result' = <<None, NotInitMsg>>
            /\ pc' = "gs_ret"
            /\ UNCHANGED character_description
       ELSE /\ character_description' = DefaultDescription
            /\ pc' = IF TruthyObj(gs_base) THEN "describe" ELSE "prepare"
            /\ UNCHANGED result
    /\ UNCHANGED <<client, init_ret, widgets, output, script,
                   gs_base, gs_text, reference_images, remote>>

\* Step 1: describe the base image; a failure is printed and passed over.
Describe ==
    /\ pc = "describe"
    /\ \E out \in DescribeOutcomes :
        /\ remote' = Append(remote, Call("generate_content", out, ""))
        /\ character_description' = DescriptionAfter(character_description, out)
    /\ pc' = "prepare"
    /\ UNCHANGED <<client, init_ret, widgets, output, script,
                   gs_base, gs_text, reference_images, result>>

\* The reference image list and the prompt.
Prepare ==
    /\ pc = "prepare"
    /\ IF TruthyObj(gs_base)
       THEN \E out \in PrepareOutcomes :
              IF out = "ok"
              THEN /\ reference_images' = <<"input_character">>
                   /\ pc' = "generate"
                   /\ UNCHANGED result
              ELSE /\ result' = <<None, "str(e)">>
                   /\ pc' = "gs_ret"
                   /\ UNCHANGED reference_images
       ELSE /\ reference_images' = <<>>
            /\ pc' = "generate"
            /\ UNCHANGED result
    /\ UNCHANGED <<client, init_ret, widgets, output, script,
                   gs_base, gs_text, character_description, remote>>

\* Step 2: generate_images and the handling of its response.
GenerateImages ==
    /\ pc = "generate"
    /\ \E out \in GenerateOutcomes :
        /\ remote' = Append(remote, Call("generate_images", out, character_description))
        /\ pc' = AfterGenerate(out)
        /\ result' = IF AfterGenerate(out) = "gs_ret" THEN StampResult(out) ELSE result
    /\ UNCHANGED <<client, init_ret, widgets, output, script,
                   gs_base, gs_text, character_description, reference_images>>

\* The 404 branch: list the models for the error message.
ListModels ==
    /\ pc = "list_models"
    /\ \E out \in ListOutcomes :
        /\ remote' = Append(remote, Call("list", out, ""))
        /\ result' = ListResult(out)
    /\ pc' = "gs_ret"
    /\ UNCHANGED <<client, init_ret, widgets, output, script,
                   gs_base, gs_text, character_description, reference_images>>

\* create_zip(images_map): one entry per item of the dict, written by
\* img.save; a value without a save method (a tuple) raises AttributeError.
CreateZip(images_map) ==
    IF \E k \in DOMAIN images_map : images_map[k] # "Image"
    THEN [raised |-> TRUE, entries |-> <<>>]
    ELSE [raised |-> FALSE, entries |-> [k \in DOMAIN images_map |-> 1]]

\* ------------------------------------------------------------- app.py

\* lines = [line.strip() for line in text_input.split('\n') if line.strip()]
Lines(text) ==
    LET raw == Split(text)
        stripped == [j \in 1..Len(raw) |-> Strip(raw[j])]
    IN SelectSeq(stripped, TruthyStr)

\* Decimal digits of n >= 0, most significant first.
RECURSIVE Digits(_)
Digits(n) == IF n < 10 THEN <<n>> ELSE Digits(n \div 10) \o <<n % 10>>

\* The format spec 02d: at least two digits, padded with zeros on the left.
Fmt02d(n) == IF Len(Digits(n)) < 2 THEN <<0>> \o Digits(n) ELSE Digits(n)

\* A faulty file name: only the last digit of the number is kept.
KeyOfLastDigit(idx) == <<"sticker_">> \o <<0, (idx + 1) % 10>> \o <<".png">>

\* f"sticker_{i+1:02d}.png"
Key(idx) == <<"sticker_">> \o Fmt02d(idx + 1) \o <<".png">>

\* A faulty bound of the loop: every line, whatever stamp_count is.
AllLines == Len(lines)

\* MAX_ITEMS = min(stamp_count, len(lines))
MAX_ITEMS == Min(stamp_count, Len(lines))

\* A faulty validation: the uploaded image is not checked.
ValidateImageOptional(key, up, ls) ==
    IF ~TruthyStr(key) THEN "Please enter your API Key in the sidebar."
    ELSE IF Len(ls) = 0 THEN "Please enter at least one line of text."
    ELSE "ok"

\* The checks behind the Generate button: the error shown, or "ok".
Validate(key, up, ls) ==
    IF ~TruthyStr(key) THEN "Please enter your API Key in the sidebar."
    ELSE IF ~TruthyObj(up) THEN "Please upload a base character image."
    ELSE IF Len(ls) = 0 THEN "Please enter at least one line of text."
    ELSE "ok"

\* `if img:` on what generate_stamp returned, which is the pair.
ImgTruthy(img) == TruthyTuple(img)

\* st.image(img, caption=text): an image is displayed; what Streamlit does
\* with an object that is not an image is Streamlit's choice.
StImageOutcomes(img) == IF img = Image THEN {"ok"} ELSE {"ok", "raise"}

EmptyDict == [k \in {} |-> None]

\* d[k] = v
DictSet(d, k, v) == [x \in DOMAIN d \cup {k} |-> IF x = k THEN v ELSE d[x]]

NoResult == <<>>

\* A user interaction: Streamlit drops what the previous run displayed and
\* runs the script again from its first line; only the module state of
\* utils.py (the handle) outlives the run.  The widget values the new run
\* reads are chosen when it starts.
Interact ==
    /\ pc \in {"idle", "crashed"}
    /\ pc' = "start"
    /\ init_ret' = <<>>
    /\ base_image' = None /\ lines' = <<>> /\ i' = 0
    /\ generated_images' = EmptyDict /\ calls' = <<>>
    /\ status_text' = "" /\ progress' = <<0, 0>> /\ sidebar' = ""
    /\ errors' = <<>> /\ warnings' = <<>> /\ shown' = <<>>
    /\ download' = FALSE /\ zip_data' = EmptyDict
    /\ gs_base' = None /\ gs_text' = <<>>
    /\ character_description' = "" /\ reference_images' = <<>>
    /\ remote' = <<>> /\ result' = NoResult
    /\ api_key' = <<>> /\ uploaded_file' = None /\ stamp_count' = 8
    /\ text_input' = <<>> /\ button' = FALSE
    /\ UNCHANGED client

\* One run of the script up to the loop: the sidebar, the widgets, lines,
\* and the Generate button with its checks.
RunScript(key, up, sc, text, btn, ctor) ==
    /\ pc = "start"
    /\ api_key' = key /\ uploaded_file' = up /\ stamp_count' = sc
    /\ text_input' = text /\ button' = btn
    /\ IF TruthyStr(key)
       THEN LET r == InitGemini(client, key, ctor)
            IN /\ client' = r.client
               /\ init_ret' = r.ret
               /\ sidebar' = IF r.ret[1] THEN "API Key configured!" ELSE "Error: str(e)"
       ELSE /\ UNCHANGED client
            /\ init_ret' = <<>>
            /\ sidebar' = ""
    /\ base_image' = IF TruthyObj(up) THEN Image ELSE None
    /\ lines' = Lines(text)
    /\ UNCHANGED <<i, generated_images, calls, status_text, progress, warnings,
                   shown, download, zip_data, stamp>>
    /\ IF ~btn
       THEN errors' = <<>> /\ pc' = "idle"
       ELSE IF Validate(key, up, Lines(text)) # "ok"
       THEN errors' = <<Validate(key, up, Lines(text))>> /\ pc' = "idle"
       ELSE errors' = <<>> /\ pc' = "loop"

\* The head of the batch loop: the next caption goes to generate_stamp, or
\* the loop is over and the archive is built and offered.
LoopStep ==
    /\ pc = "loop"
    /\ IF i < MAX_ITEMS
       THEN /\ status_text' = "Generating stamp"
            /\ calls' = Append(calls, i)
            /\ gs_base' = base_image
            /\ gs_text' = lines[i + 1]
            /\ remote' = <<>>
            /\ result' = NoResult
            /\ pc' = "gs_start"
            /\ UNCHANGED <<download, zip_data>>
       ELSE /\ status_text' = "Generation Complete!"
            /\ IF generated_images # EmptyDict
               THEN LET z == CreateZip(generated_images)
                    IN IF z.raised
                       THEN pc' = "crashed" /\ UNCHANGED <<download, zip_data>>
                       ELSE pc' = "idle" /\ download' = TRUE /\ zip_data' = z.entries
               ELSE pc' = "idle" /\ UNCHANGED <<download, zip_data>>
            /\ UNCHANGED <<calls, gs_base, gs_text, remote, result>>
    /\ UNCHANGED <<client, init_ret, widgets, base_image, lines, i, generated_images,
                   progress, sidebar, errors, warnings, shown,
                   character_description, reference_images>>

\* The rest of the loop body, once generate_stamp has returned.
LoopBody ==
    /\ pc = "gs_ret"
    /\ IF ImgTruthy(result)
       THEN /\ generated_images' = DictSet(generated_images, Key(i), PyType(result))
            /\ \E o \in StImageOutcomes(result) :
                 IF o = "raise"
                 THEN pc' = "crashed" /\ UNCHANGED <<shown, progress, i>>
                 ELSE /\ shown' = Append(shown, i)
                      /\ progress' = <<i + 1, MAX_ITEMS>>
                      /\ i' = i + 1
                      /\ pc' = "loop"
            /\ UNCHANGED warnings
       ELSE /\ warnings' = Append(warnings, i)
            /\ progress' = <<i + 1, MAX_ITEMS>>
            /\ i' = i + 1
            /\ pc' = "loop"
            /\ UNCHANGED <<generated_images, shown>>
    /\ UNCHANGED <<client, init_ret, widgets, base_image, lines, calls,
                   status_text, sidebar, errors, download, zip_data, stamp>>

\* ------------------------------------------------- utils.py called directly

\* Between two calls: at the start, or after a call returned.
NoCallInProgress == pc \in {"start", "idle"}

\* Dicts handed to create_zip: up to two file names, each holding an image
\* or a pair.
ZipInputs ==
    UNION {[ks -> {"Image", "tuple"}] : ks \in SUBSET {Key(0), Key(1)}}

CallInitGemini(key, ctor) ==
    /\ NoCallInProgress
    /\ client' = InitGemini(client, key, ctor).client
    /\ init_ret' = InitGemini(client, key, ctor).ret
    /\ api_key' = key
    /\ UNCHANGED <<pc, uploaded_file, stamp_count, text_input, button,
                   output, script, stamp>>

CallGenerateStamp(base, text) ==
    /\ NoCallInProgress
    /\ gs_base' = base /\ gs_text' = text
    /\ remote' = <<>> /\ result' = NoResult
    /\ character_description' = "" /\ reference_images' = <<>>
    /\ pc' = "gs_start"
    /\ UNCHANGED <<client, init_ret, widgets, output, script>>

StampReturns ==
    /\ pc = "gs_ret"
    /\ pc' = "idle"
    /\ UNCHANGED <<client, init_ret, widgets, output, script, stamp>>

CallCreateZip(images_map) ==
    /\ NoCallInProgress
    /\ generated_images' = images_map
    /\ LET z == CreateZip(images_map)
       IN /\ zip_data' = z.entries
          /\ status_text' = IF z.raised THEN "AttributeError" ELSE "zip built"
    /\ UNCHANGED <<pc, client, init_ret, widgets, progress, sidebar, errors,
                   warnings, shown, download, base_image, lines, i, calls, stamp>>

\* ---------------------------------------------------------- specifications

Init ==
    /\ pc = "start"
    /\ client = None
    /\ init_ret = <<>>
    /\ api_key = <<>> /\ uploaded_file = None /\ stamp_count = 8
    /\ text_input = <<>> /\ button = FALSE
    /\ base_image = None /\ lines = <<>> /\ i = 0
    /\ generated_images = EmptyDict /\ calls = <<>>
    /\ status_text = "" /\ progress = <<0, 0>> /\ sidebar = ""
    /\ errors = <<>> /\ warnings = <<>> /\ shown = <<>>
    /\ download = FALSE /\ zip_data = EmptyDict
    /\ gs_base = None /\ gs_text = <<>>
    /\ character_description = "" /\ reference_images = <<>>
    /\ remote = <<>> /\ result = NoResult

\* The application: runs of the script, one per interaction.
Next ==
    \/ \E key \in ApiKeys, up \in Uploads, sc \in StampOptions,
          text \in TextInputs, btn \in BOOLEAN, ctor \in CtorOutcomes :
          RunScript(key, up, sc, text, btn, ctor)
    \/ Interact
    \/ LoopStep
    \/ LoopBody
    \/ GsStart
    \/ Describe
    \/ Prepare
    \/ GenerateImages
    \/ ListModels

Spec == Init /\ [][Next]_vars

\* The module utils.py under any caller.
NextUtils ==
    \/ \E key \in ApiKeys, ctor \in CtorOutcomes : CallInitGemini(key, ctor)
    \/ \E base \in {None, Image}, text \in {Caption, PaddedCaption} :
          CallGenerateStamp(base, text)
    \/ StampReturns
    \/ \E m \in ZipInputs : CallCreateZip(m)
    \/ GsStart
    \/ Describe
    \/ Prepare
    \/ GenerateImages
    \/ ListModels

SpecUtils == Init /\ [][NextUtils]_vars

\* ------------------------------------------------------------------ claims

GenerationComplete == "Generation Complete!"

\* The run of the script has ended, normally or by an uncaught exception.
RunEnded == pc \in {"idle", "crashed"}

\* The text area holds at least one line with a non-whitespace character.
HasCaption(text) == \E k \in 1..Len(text) : text[k] \notin Whitespace

\* The names of the remote calls of the current generate_stamp call, in order.
RemoteNames == [k \in 1..Len(remote) |-> remote[k].call]

\* C1: an item whose generation failed (generate_stamp returned (None, error))
\* gets the 'Failed to generate' warning and no entry in generated_images.
\* At the loop head the last item is i - 1 and result is what it returned.
C1_FailedItemWarnedNotStored ==
    (pc = "loop" /\ i > 0 /\ result # NoResult /\ result[1] = None)
        => /\ (i - 1) \in Range(warnings)
           /\ Key(i - 1) \notin DOMAIN generated_images

\* C2: once the Generate button passed validation, the run ends only after
\* generate_stamp was called once for each index 0..MAX_ITEMS-1, in
\* increasing order, and the status 'Generation Complete!' was reached.
C2_BatchRunsToCompletion ==
    (RunEnded /\ button /\ errors = <<>>)
        => /\ status_text = GenerationComplete
           /\ calls = [k \in 1..Min(stamp_count, Len(lines)) |-> k - 1]

\* C3, as stated: a run that reached 'Generation Complete!' has passed every
\* non-blank caption line to generate_stamp exactly once.
C3_EveryCaptionOnce ==
    status_text = GenerationComplete
        => \A j \in 0..(Len(lines) - 1) : Count(calls, j) = 1

\* C3, amended: only the first min(stamp_count, len(lines)) caption lines are
\* passed to generate_stamp, each at most once and with its own text, and
\* each exactly once in a run that reached 'Generation Complete!'; the lines
\* beyond stamp_count are never passed.
C3_FirstCaptionsOnce ==
    /\ \A k \in 1..Len(calls) :
          /\ calls[k] = k - 1
          /\ calls[k] < Min(stamp_count, Len(lines))
    /\ pc = "gs_start" => gs_text = lines[calls[Len(calls)] + 1]
    /\ status_text = GenerationComplete
          => Len(calls) = Min(stamp_count, Len(lines))

\* C3 witness: a completed run with more caption lines than stamp_count.
C3_Witness ==
    /\ status_text = GenerationComplete
    /\ Len(lines) > stamp_count
    /\ Len(calls) = stamp_count

\* The largest option of the stamp count slider.
MaxBatch == 40

\* The file names of two different positions of a batch differ.
KeysDiffer == \A a, b \in 0..(MaxBatch - 1) : a # b => Key(a) # Key(b)

\* C4: every key of generated_images is 'sticker_' + two digits + '.png'
\* whose number is position + 1 of a caption already passed on, there are no
\* more entries than captions processed so far, and the keys of two
\* different positions below 40 differ.
C4_UniqueFileNames ==
    /\ \A k \in DOMAIN generated_images :
          /\ Len(k) = 4 /\ k[1] = "sticker_" /\ k[4] = ".png"
          /\ k[2] \in 0..9 /\ k[3] \in 0..9
          /\ (10 * k[2] + k[3] - 1) \in Range(calls)
    /\ Cardinality(DOMAIN generated_images) <= Len(calls)
    /\ pc = "loop" => \A j \in Range(calls) :
          Key(j) \in DOMAIN generated_images \/ j \in Range(warnings)
    /\ KeysDiffer

\* C4 witness: ten entries, the last under a two-digit number.
C4_Witness ==
    /\ Cardinality(DOMAIN generated_images) = 10
    /\ <<"sticker_", 1, 0, ".png">> \in DOMAIN generated_images

\* C5: generate_stamp always returns, and what it returns is a pair with
\* exactly one None: (image, None) or (None, message).
C5_PairWithOneNone ==
    /\ pc \in {"start", "idle", "gs_start", "describe", "prepare",
               "generate", "list_models", "gs_ret"}
    /\ pc = "gs_ret" =>
          /\ Len(result) = 2
          /\ (result[1] = None) # (result[2] = None)
          /\ result[1] \in {None, Image}
    /\ pc \in {"gs_start", "describe", "prepare", "generate", "list_models"}
          => result = NoResult

\* C5 witness: generate_images raised an error other than 404, re-raised to
\* the outer handler, and the call returned (None, message).
C5_Witness ==
    /\ pc = "gs_ret"
    /\ Len(remote) > 0 /\ remote[Len(remote)].outcome = "error"
    /\ result = <<None, "str(e)">>

\* C6: with a base image the remote calls of one generate_stamp call are a
\* prefix of describe, generate, list: each at most once, in that order, and
\* list only right after generate_images failed with 404/NOT_FOUND.
C6_NoRetry ==
    /\ gs_base # None =>
          RemoteNames \in {<<>>, <<"generate_content">>,
                           <<"generate_content", "generate_images">>,
                           <<"generate_content", "generate_images", "list">>}
    /\ \A k \in 1..Len(remote) :
          remote[k].call = "list" =>
              /\ k > 1
              /\ remote[k - 1].call = "generate_images"
              /\ remote[k - 1].outcome = "not_found"
    /\ \A k \in 1..Len(remote) :
          (remote[k].outcome \in {"raise", "error", "not_found"} /\ k < Len(remote))
              => remote[k + 1].call # remote[k].call

\* C6 witness: describe, then generate_images failing with 404, then list.
C6_Witness ==
    /\ pc = "gs_ret"
    /\ RemoteNames = <<"generate_content", "generate_images", "list">>
    /\ remote[1].outcome = "raise"

\* C7: with Generate pressed the batch starts only if the API key is
\* non-empty, an image is uploaded and a caption line exists; otherwise one
\* error is shown, by the priority key > image > captions, generate_stamp is
\* not called, nothing is stored and no download is offered.
C7_Validation ==
    LET valid == /\ TruthyStr(api_key)
                 /\ uploaded_file # None
                 /\ HasCaption(text_input)
        expected == IF ~TruthyStr(api_key)
                    THEN "Please enter your API Key in the sidebar."
                    ELSE IF uploaded_file = None
                    THEN "Please upload a base character image."
                    ELSE "Please enter at least one line of text."
    IN /\ (button /\ valid) => errors = <<>>
       /\ (button /\ ~valid) =>
             /\ errors = <<expected>>
             /\ pc = "idle"
             /\ calls = <<>>
             /\ generated_images = EmptyDict
             /\ ~download
       /\ (calls # <<>> \/ pc \notin {"start", "idle"}) => (button /\ valid)

\* C7 witness: Generate pressed with no key and no image: the key error wins.
C7_Witness ==
    /\ button
    /\ api_key = <<>> /\ uploaded_file = None /\ ~HasCaption(text_input)
    /\ errors = <<"Please enter your API Key in the sidebar.">>

\* C8: with the handle unset generate_stamp returns the 'API not
\* initialized' pair and issues no remote call; a failing init_gemini (empty
\* key, or the constructor raised) leaves the handle as it was; a handle once
\* set is never reset to None.
C8_HandleGuard ==
    /\ [](/\ (pc = "gs_ret" /\ client = None) =>
                (result = <<None, NotInitMsg>> /\ remote = <<>>)
          /\ pc \in {"describe", "prepare", "generate", "list_models"}
                => client # None)
    /\ [][/\ (Len(init_ret') = 2 /\ ~init_ret'[1]) => client' = client
          /\ client # None => client' # None]_vars

\* C8 witness: the constructor raised, the handle stayed unset, and a
\* generate_stamp call returned the 'API not initialized' pair.
C8_Witness ==
    /\ pc = "gs_ret"
    /\ client = None
    /\ init_ret = <<FALSE, "str(e)">>
    /\ result = <<None, NotInitMsg>>

\* The describe call of the current generate_stamp call failed: it raised,
\* or its response had no text.
DescribeFailed ==
    /\ gs_base # None
    /\ Len(remote) >= 1
    /\ remote[1].call = "generate_content"
    /\ remote[1].outcome \in {"raise", "empty"}

GenerateIssued == \E k \in 1..Len(remote) : remote[k].call = "generate_images"

\* C9, as stated: when describe failed, generate_stamp has issued the
\* generate_images call, with the default description, before it returns.
C9_GenerateAlwaysIssued ==
    (pc = "gs_ret" /\ DescribeFailed)
        => \E k \in 1..Len(remote) :
              /\ remote[k].call = "generate_images"
              /\ remote[k].description = DefaultDescription

\* C9, amended: a failed describe never ends the call by itself; the call
\* goes on with the default description and issues generate_images unless
\* preparing the reference image raises, which returns (None, str(e)); and a
\* generate_images call uses the model's description exactly when describe
\* returned non-empty text.
C9_DescribeFailureTolerated ==
    /\ DescribeFailed =>
          /\ pc # "describe"
          /\ character_description = DefaultDescription
          /\ pc = "gs_ret" =>
                \/ GenerateIssued
                \/ (reference_images = <<>> /\ result = <<None, "str(e)">>)
    /\ \A k \in 1..Len(remote) :
          remote[k].call = "generate_images" =>
              remote[k].description =
                  IF k > 1 /\ remote[k - 1].outcome = "text"
                  THEN "response.text" ELSE DefaultDescription

\* C9 witness: describe raised and the call still produced an image, from a
\* generate_images call made with the default description.
C9_Witness ==
    /\ pc = "gs_ret"
    /\ DescribeFailed /\ remote[1].outcome = "raise"
    /\ Len(remote) = 2 /\ remote[2].description = DefaultDescription
    /\ result = <<Image, None>>

\* C10: after the loop the download is offered exactly when generated_images
\* is not empty, and the archive has one entry per key and no other.
C10_DownloadIffStored ==
    (RunEnded /\ status_text = GenerationComplete)
        => /\ download <=> (generated_images # EmptyDict)
           /\ download =>
                 /\ DOMAIN zip_data = DOMAIN generated_images
                 /\ \A k \in DOMAIN zip_data : zip_data[k] = 1

====
